---- MODULE Spec2Model ----
(***************************************************************************)
(* Model of src/global_functions.py: filter_cols, format_number and        *)
(* descriptive_analysis over small pandas-like DataFrames.                 *)
(*                                                                         *)
(* A DataFrame is [index |-> number of rows, columns |-> sequence of       *)
(* columns]; a column is [name, dtype, values].  Column names are strings, *)
(* written as sequences of one-character strings so that lower() and       *)
(* startswith() are computed character by character; names are unique      *)
(* within a frame.  Cell values and statistics are tagged records.         *)
(* Floats are exact decimals counted in thousandths (field milli), and the *)
(* missing threshold is counted in tenths, so all arithmetic is exact.     *)
(***************************************************************************)
EXTENDS Integers, Sequences, FiniteSets, TLC

VARIABLES df, call, missing_threshold, threshold_count, df_filtered,
          report_df, again_filtered, again_report, combined_stats, raised,
          x, fx, ffx

vars == <<df, call, missing_threshold, threshold_count, df_filtered,
          report_df, again_filtered, again_report, combined_stats, raised,
          x, fx, ffx>>

(* ------------------------------ bounds --------------------------------- *)
MaxCols == 2
MaxRows == 2
MaxMilli == 60

(* ------------------------------ values --------------------------------- *)
NaN == [type |-> "nan"]
None == [type |-> "NoneType"]
Float(m) == [type |-> "float", milli |-> m]
IntV(n) == [type |-> "int", int |-> n]
Str(s) == [type |-> "str", str |-> s]

\* pd.isnull on a scalar
pd_isnull(v) == v.type \in {"nan", "NoneType"}

\* isinstance(x, float) for a value that is not null
isinstance_float(v) == v.type = "float"

\* round(x, 2) on a float held in thousandths: nearest hundredth, ties to even
round2(m) ==
    LET q == m \div 10
        r == m % 10
    IN  IF r < 5 THEN 10 * q
        ELSE IF r > 5 THEN 10 * (q + 1)
        ELSE IF q % 2 = 0 THEN 10 * q ELSE 10 * (q + 1)

\* the docstring's variant: a whole rounded value comes back as an integer
format_number_int_if_whole(v) ==
    IF pd_isnull(v) THEN v
    ELSE IF isinstance_float(v)
         THEN IF round2(v.milli) % 1000 = 0
              THEN IntV(round2(v.milli) \div 1000)
              ELSE Float(round2(v.milli))
         ELSE v

format_number(v) ==
    IF pd_isnull(v) THEN v
    ELSE IF isinstance_float(v) THEN Float(round2(v.milli))
    ELSE v

(* ------------------------------ strings -------------------------------- *)
upper_to_lower ==
    ("A" :> "a") @@ ("B" :> "b") @@ ("C" :> "c") @@ ("D" :> "d") @@
    ("E" :> "e") @@ ("F" :> "f") @@ ("G" :> "g") @@ ("H" :> "h") @@
    ("I" :> "i") @@ ("J" :> "j") @@ ("K" :> "k") @@ ("L" :> "l") @@
    ("M" :> "m") @@ ("N" :> "n") @@ ("O" :> "o") @@ ("P" :> "p") @@
    ("Q" :> "q") @@ ("R" :> "r") @@ ("S" :> "s") @@ ("T" :> "t") @@
    ("U" :> "u") @@ ("V" :> "v") @@ ("W" :> "w") @@ ("X" :> "x") @@
    ("Y" :> "y") @@ ("Z" :> "z")

\* a case-sensitive comparison: the name is left as it is
lower_identity(s) == s

\* str.lower
lower(s) ==
    [i \in DOMAIN s |->
        IF s[i] \in DOMAIN upper_to_lower THEN upper_to_lower[s[i]] ELSE s[i]]

\* str.startswith
startswith(s, prefix) ==
    /\ Len(s) >= Len(prefix)
    /\ SubSeq(s, 1, Len(prefix)) = prefix

unnamed == <<"u", "n", "n", "a", "m", "e", "d">>

RECURSIVE join(_, _)
\* sep.join(items)
join(sep, items) ==
    IF items = <<>> THEN ""
    ELSE IF Len(items) = 1 THEN items[1]
    ELSE items[1] \o sep \o join(sep, Tail(items))

(* ------------------------------ frames --------------------------------- *)
Name_a == <<"a">>
Name_empty == <<>>
Name_unname == <<"u", "n", "n", "a", "m", "e">>
Name_Unnamed0 == <<"U", "n", "n", "a", "m", "e", "d", ":", " ", "0">>

Name_UNNAMED == <<"U", "N", "N", "A", "M", "E", "D">>

Names == {Name_a, Name_empty, Name_unname, Name_Unnamed0, Name_UNNAMED}

CellValues(dtype) ==
    IF dtype = "float64" THEN {NaN, Float(1500)} ELSE {None, Str("x")}

ColumnsOfLen(n) ==
    UNION {[name : {nm}, dtype : {dt}, values : [1..n -> CellValues(dt)]] :
              <<nm, dt>> \in Names \X {"float64", "object"}}

UniqueNames(cols) ==
    \A i, j \in DOMAIN cols : cols[i].name = cols[j].name => i = j

\* frame is a DataFrame of at most MaxRows rows and MaxCols columns
IsDataFrame(frame) ==
    \E n \in 0..MaxRows, k \in 0..MaxCols :
        \E cols \in [1..k -> ColumnsOfLen(n)] :
            /\ UniqueNames(cols)
            /\ frame = [index |-> n, columns |-> cols]

EmptyFrame == [index |-> 0, columns |-> <<>>]

\* len(df)
len(frame) == frame.index

\* df[col].isnull().sum()
isnull_sum(col) ==
    Cardinality({i \in DOMAIN col.values : pd_isnull(col.values[i])})

(* ----------------------------- filter_cols ------------------------------ *)
\* missing_threshold values, in tenths: 0.0, 0.5, the default 0.9, 1.0
Thresholds == {0, 5, 9, 10}

\* the row count replaced by the column count
threshold_count_of_columns(t, frame) == t * Len(frame.columns)

\* threshold_count = missing_threshold * len(df), in tenths of a row
threshold_count_of(t, frame) == t * len(frame)

\* the comparison made non-strict
exceeds_or_equals(nmissing, tc) == nmissing * 10 >= tc

\* df[col].isnull().sum() > threshold_count
exceeds(nmissing, tc) == nmissing * 10 > tc

\* the reasons list built for one column by the loop body
reasons_of(col, tc) ==
    (IF exceeds(isnull_sum(col), tc)
        THEN <<"Excessive Missing Values">> ELSE <<>>)
    \o
    (IF startswith(lower(col.name), unnamed)
        THEN <<"Unnamed Column">> ELSE <<>>)

RECURSIVE cols_to_filter(_, _)
\* the dict cols_to_filter as its items in insertion order
cols_to_filter(cols, tc) ==
    IF cols = <<>> THEN <<>>
    ELSE LET reasons == reasons_of(Head(cols), tc)
         IN  (IF reasons # <<>>
                 THEN <<[Column |-> Head(cols).name,
                         Reason |-> join(", ", reasons)]>>
                 ELSE <<>>)
             \o cols_to_filter(Tail(cols), tc)

\* cols_to_filter.keys()
keys(items) == {items[i].Column : i \in DOMAIN items}

\* a drop that removes only the first of the labels
drop_first_only(frame, items) ==
    [frame EXCEPT !.columns =
        SelectSeq(frame.columns,
                  LAMBDA c : ~(items # <<>> /\ c.name = items[1].Column))]

\* df.drop(columns=cols_to_filter.keys()): the frame that is returned
drop(frame, items) ==
    [frame EXCEPT !.columns =
        SelectSeq(frame.columns, LAMBDA c : c.name \notin keys(items))]

\* drop(..., inplace=True): the receiver loses the columns too
drop_inplace(frame, items) == drop(frame, items)

\* df.drop(columns=...) with the default inplace=False: the receiver after it
after_drop(frame, items) == frame

ReportHeaders == <<"Column", "Reason">>

\* pd.DataFrame(report_data)
report_of(items) == [columns |-> ReportHeaders, rows |-> items]

title_row ==
    [Column |-> <<"F", "i", "l", "t", "e", "r", "e", "d", " ", "C", "o", "l",
                  "u", "m", "n", "s", " ", "R", "e", "p", "o", "r", "t">>,
     Reason |-> ""]

\* pd.concat([title_df, report_df], ignore_index=True)
report_with_title(items) ==
    [columns |-> ReportHeaders, rows |-> <<title_row>> \o items]

\* the report returned by filter_cols
returned_report(items) == report_of(items)

\* filter_cols(df, missing_threshold): locals at the return statement
filter_cols(frame, t) ==
    LET tc == threshold_count_of(t, frame)
        items == cols_to_filter(frame.columns, tc)
    IN  [threshold_count |-> tc,
         self |-> after_drop(frame, items),
         df_filtered |-> drop(frame, items),
         report_df |-> returned_report(items)]

EmptyReport == report_of(<<>>)

(* ------------------------- descriptive_analysis ------------------------- *)
\* df.select_dtypes(include=np.number).columns
numeric_cols(frame) ==
    SelectSeq(frame.columns, LAMBDA c : c.dtype = "float64")

\* df.select_dtypes(exclude=np.number).columns
non_numeric_cols(frame) ==
    SelectSeq(frame.columns, LAMBDA c : c.dtype # "float64")

\* Index.any(): some label is truthy, and a string is truthy when non-empty
Index_any(cols) == \E i \in DOMAIN cols : cols[i].name # <<>>

\* Series.dropna()
dropna(values) == SelectSeq(values, LAMBDA v : ~pd_isnull(v))

\* Series.empty
empty(values) == Len(values) = 0

occurrences(values, v) == Cardinality({i \in DOMAIN values : values[i] = v})

\* Series.value_counts(): missing values dropped, highest count first, a tie
\* kept in order of first appearance; as a sequence of [value, n]
value_counts(values) ==
    LET present == dropna(values)
        firsts == {i \in DOMAIN present :
                      \A j \in 1..(i - 1) : present[j] # present[i]}
        before(i, j) ==
            \/ occurrences(present, present[i]) > occurrences(present, present[j])
            \/ /\ occurrences(present, present[i]) = occurrences(present, present[j])
               /\ i < j
        rank(i) == 1 + Cardinality({j \in firsts : before(j, i)})
    IN  [k \in 1..Cardinality(firsts) |->
            LET i == CHOOSE i \in firsts : rank(i) = k
            IN  [value |-> present[i], n |-> occurrences(present, present[i])]]

\* assignment into a float64 frame: an integer is stored as a float
astype_float64(v) == IF v.type = "int" THEN Float(1000 * v.int) ELSE v

min_milli(values) ==
    CHOOSE m \in {values[i].milli : i \in DOMAIN values} :
        \A i \in DOMAIN values : m <= values[i].milli

max_milli(values) ==
    CHOOSE m \in {values[i].milli : i \in DOMAIN values} :
        \A i \in DOMAIN values : m >= values[i].milli

\* one column of df[numeric_cols].describe().applymap(format_number), with the
\* missing and freq rows added (mean, std and the quartiles are real-valued
\* and are left out)
numeric_column_stats(col) ==
    LET present == dropna(col.values)
    IN  [count |-> format_number(Float(1000 * Len(present))),
         min |-> format_number(IF empty(present) THEN NaN
                               ELSE Float(min_milli(present))),
         max |-> format_number(IF empty(present) THEN NaN
                               ELSE Float(max_milli(present))),
         missing |-> astype_float64(format_number(IntV(isnull_sum(col)))),
         freq |-> astype_float64(format_number(
                      IF ~empty(dropna(col.values))
                          THEN IntV(value_counts(dropna(col.values))[1].n)
                          ELSE NaN))]

\* the lambda of the non-numeric freq row raises IndexError on this column:
\* x is not empty, but value_counts() of it is
freq_raises(col) ==
    /\ ~empty(col.values)
    /\ value_counts(col.values) = <<>>

\* one column of df[non_numeric_cols].describe(include='all') with the
\* missing row added and the freq row recomputed
non_numeric_column_stats(col) ==
    LET counts == value_counts(col.values)
    IN  [count |-> IntV(Len(dropna(col.values))),
         unique |-> IntV(Len(counts)),
         top |-> IF counts = <<>> THEN NaN ELSE counts[1].value,
         missing |-> IntV(isnull_sum(col)),
         freq |-> IF ~empty(col.values) /\ counts # <<>>
                     THEN IntV(counts[1].n) ELSE NaN]

StatNames == {"count", "min", "max", "unique", "top", "freq", "missing"}

\* a column of a group table as a row of the transposed, concatenated table:
\* a statistic the group does not have is a missing marker
labelled(group, name, stats) ==
    [group |-> group, column |-> name,
     stats |-> [s \in StatNames |->
                   IF s \in DOMAIN stats THEN stats[s] ELSE NaN]]

\* numeric_stats: assigned only when numeric_cols.any() is true
numeric_stats(frame) ==
    LET cols == numeric_cols(frame)
    IN  IF Index_any(cols)
        THEN [bound |-> TRUE,
              table |-> [i \in DOMAIN cols |->
                            labelled("Numeric Data", cols[i].name,
                                     numeric_column_stats(cols[i]))]]
        ELSE [bound |-> FALSE, table |-> <<>>]

\* non_numeric_stats: assigned only when non_numeric_cols.any() is true
non_numeric_stats(frame) ==
    LET cols == non_numeric_cols(frame)
    IN  IF Index_any(cols)
        THEN [bound |-> TRUE,
              table |-> [i \in DOMAIN cols |->
                            labelled("Non-Numeric Data", cols[i].name,
                                     non_numeric_column_stats(cols[i]))]]
        ELSE [bound |-> FALSE, table |-> <<>>]

\* descriptive_analysis(df): the exception raised, if any, and the table
descriptive_analysis(frame) ==
    LET nonnum == non_numeric_cols(frame)
    IN  IF Index_any(nonnum) /\ \E i \in DOMAIN nonnum : freq_raises(nonnum[i])
        THEN [raised |-> "IndexError", combined_stats |-> <<>>]
        ELSE IF ~numeric_stats(frame).bound \/ ~non_numeric_stats(frame).bound
        THEN [raised |-> "UnboundLocalError", combined_stats |-> <<>>]
        ELSE [raised |-> "none",
              combined_stats |->
                  numeric_stats(frame).table \o non_numeric_stats(frame).table]

(* ------------------------------- actions -------------------------------- *)
\* A behaviour is one use of the module by a caller that owns the frame df:
\* one call of filter_cols (and then a second one on its result) or one call
\* of descriptive_analysis; call names the last call made.
\* float inputs of format_number, in thousandths, and values of other types
FormatInputs ==
    {Float(m) : m \in (-MaxMilli)..MaxMilli}
    \cup {Float(1005), Float(2000), Float(2675), Float(2995), Float(-3000)}
    \cup {NaN, None, IntV(0), IntV(3), Str("x"), Str("2.50")}

Init ==
    /\ IsDataFrame(df)
    /\ call = "none"
    /\ missing_threshold = 9
    /\ threshold_count = 0
    /\ df_filtered = EmptyFrame
    /\ report_df = EmptyReport
    /\ again_filtered = EmptyFrame
    /\ again_report = EmptyReport
    /\ combined_stats = <<>>
    /\ raised = "none"
    /\ x = NaN /\ fx = NaN /\ ffx = NaN

\* df_filtered, report_df = filter_cols(df, t)
FilterCols ==
    \E t \in Thresholds :
        LET r == filter_cols(df, t)
        IN  /\ call = "none"
            /\ call' = "filter_cols"
            /\ missing_threshold' = t
            /\ threshold_count' = r.threshold_count
            /\ df' = r.self
            /\ df_filtered' = r.df_filtered
            /\ report_df' = r.report_df
            /\ again_filtered' = EmptyFrame
            /\ again_report' = EmptyReport
            /\ combined_stats' = <<>>
            /\ raised' = "none"
            /\ UNCHANGED <<x, fx, ffx>>

\* again_filtered, again_report = filter_cols(df_filtered, t), same t
FilterAgain ==
    /\ call = "filter_cols"
    /\ LET r == filter_cols(df_filtered, missing_threshold)
       IN  /\ call' = "filter_cols_again"
           /\ df_filtered' = r.self
           /\ again_filtered' = r.df_filtered
           /\ again_report' = r.report_df
    /\ UNCHANGED <<df, missing_threshold, threshold_count, report_df,
                   combined_stats, raised, x, fx, ffx>>

\* combined_stats = descriptive_analysis(df), or the exception it raises
DescriptiveAnalysis ==
    /\ call = "none"
    /\ LET r == descriptive_analysis(df)
       IN  /\ call' = "descriptive_analysis"
           /\ raised' = r.raised
           /\ combined_stats' = r.combined_stats
    /\ df_filtered' = EmptyFrame
    /\ report_df' = EmptyReport
    /\ again_filtered' = EmptyFrame
    /\ again_report' = EmptyReport
    /\ UNCHANGED <<df, missing_threshold, threshold_count, x, fx, ffx>>

Next == FilterCols \/ FilterAgain \/ DescriptiveAnalysis

Spec == Init /\ [][Next]_vars

\* format_number on its own: the input is drawn at the start
InitFormat ==
    /\ x \in FormatInputs
    /\ fx = NaN /\ ffx = NaN
    /\ call = "none"
    /\ df = EmptyFrame
    /\ missing_threshold = 9
    /\ threshold_count = 0
    /\ df_filtered = EmptyFrame
    /\ report_df = EmptyReport
    /\ again_filtered = EmptyFrame
    /\ again_report = EmptyReport
    /\ combined_stats = <<>>
    /\ raised = "none"

\* fx = format_number(x)
FormatNumber ==
    /\ call = "none"
    /\ call' = "format_number"
    /\ fx' = format_number(x)
    /\ UNCHANGED <<df, missing_threshold, threshold_count, df_filtered,
                   report_df, again_filtered, again_report, combined_stats,
                   raised, x, ffx>>

\* ffx = format_number(fx)
FormatNumberAgain ==
    /\ call = "format_number"
    /\ call' = "format_number_again"
    /\ ffx' = format_number(fx)
    /\ UNCHANGED <<df, missing_threshold, threshold_count, df_filtered,
                   report_df, again_filtered, again_report, combined_stats,
                   raised, x, fx>>

NextFormat == FormatNumber \/ FormatNumberAgain

SpecFormat == InitFormat /\ [][NextFormat]_vars

(* ------------------------------ properties ------------------------------ *)
\* the names of this model that start with "unnamed" when case is ignored
UnnamedNames == {Name_Unnamed0, Name_UNNAMED}

ExcessiveReasons ==
    {"Excessive Missing Values", "Excessive Missing Values, Unnamed Column"}

ReportedNames == {report_df.rows[i].Column : i \in DOMAIN report_df.rows}

ReasonsFor(name) ==
    {report_df.rows[i].Reason :
        i \in {j \in DOMAIN report_df.rows : report_df.rows[j].Column = name}}

NamesOf(cols) == [i \in DOMAIN cols |-> cols[i].name]

FilteredNames == {df_filtered.columns[i].name : i \in DOMAIN df_filtered.columns}

\* more missing values than missing_threshold x row count, in exact arithmetic
OverThreshold(col) == isnull_sum(col) * 10 > missing_threshold * df.index

AtThreshold(col) == isnull_sum(col) * 10 = missing_threshold * df.index

\* C1: after filter_cols(D, t) the filtered frame holds exactly D's columns
\* that the report does not name, in D's order and with their values, and the
\* report has exactly one row per removed column, in D's order (no title row).
C1_FilteredIsInputMinusReport ==
    call = "filter_cols" =>
        /\ df_filtered.columns =
               SelectSeq(df.columns, LAMBDA c : c.name \notin ReportedNames)
        /\ df_filtered.index = df.index
        /\ [i \in DOMAIN report_df.rows |-> report_df.rows[i].Column] =
               NamesOf(SelectSeq(df.columns,
                                 LAMBDA c : c.name \notin FilteredNames))
        /\ Len(report_df.rows) + Len(df_filtered.columns) = Len(df.columns)

C1_Witness ==
    /\ call = "filter_cols"
    /\ Len(report_df.rows) >= 1
    /\ Len(df_filtered.columns) >= 1

C3_ReasonsFixedByRules ==
    call = "filter_cols" =>
        \A i \in DOMAIN df.columns :
            LET c == df.columns[i]
                over == OverThreshold(c)
                unn == c.name \in UnnamedNames
            IN  /\ (over \/ unn) <=> c.name \in ReportedNames
                /\ (over \/ unn) <=> c.name \notin FilteredNames
                /\ (over /\ ~unn) =>
                       ReasonsFor(c.name) = {"Excessive Missing Values"}
                /\ (~over /\ unn) => ReasonsFor(c.name) = {"Unnamed Column"}
                /\ (over /\ unn) =>
                       ReasonsFor(c.name) =
                           {"Excessive Missing Values, Unnamed Column"}

C3_Witness ==
    /\ call = "filter_cols"
    /\ \E i, j \in DOMAIN df.columns :
           /\ OverThreshold(df.columns[i])
           /\ df.columns[i].name \in UnnamedNames
           /\ ~OverThreshold(df.columns[j])
           /\ df.columns[j].name \notin UnnamedNames

\* C4: filter_cols is idempotent: applied with the same t to its own filtered
\* frame it returns that frame again and an empty report.
C4_FilterIdempotent ==
    call = "filter_cols_again" =>
        /\ again_filtered = df_filtered
        /\ again_report.rows = <<>>

C4_Witness ==
    /\ call = "filter_cols_again"
    /\ Len(report_df.rows) >= 1
    /\ Len(df_filtered.columns) >= 1
    /\ \E i \in DOMAIN df_filtered.columns :
           isnull_sum(df_filtered.columns[i]) >= 1

BothGroupsPresent(frame) ==
    numeric_cols(frame) # <<>> /\ non_numeric_cols(frame) # <<>>

\* the table has exactly one row per column of the frame, tagged by its kind
OneRowPerColumn(frame, table) ==
    /\ Len(table) = Len(frame.columns)
    /\ \A i \in DOMAIN frame.columns :
           LET c == frame.columns[i]
               tag == IF c.dtype = "float64"
                          THEN "Numeric Data" ELSE "Non-Numeric Data"
           IN  Cardinality({j \in DOMAIN table : table[j].column = c.name}) = 1
               /\ \E j \in DOMAIN table :
                      table[j].column = c.name /\ table[j].group = tag

\* C5: describe never fails because a data-kind group is absent: with only
\* numeric or only non-numeric columns it returns the present group's table,
\* one row per column, and with zero columns an empty table.
C5_AbsentGroupNoFailure ==
    (call = "descriptive_analysis" /\ ~BothGroupsPresent(df)) =>
        /\ raised = "none"
        /\ OneRowPerColumn(df, combined_stats)

\* C6: for a frame with at least one numeric and one non-numeric column,
\* whatever the column names, describe returns exactly one row per column,
\* numeric columns under "Numeric Data", the others under "Non-Numeric Data".
C6_OneRowPerColumn ==
    (call = "descriptive_analysis" /\ BothGroupsPresent(df)) =>
        /\ raised = "none"
        /\ OneRowPerColumn(df, combined_stats)

C8_InputNotMutated ==
    [][/\ df' = df
       /\ call' = "filter_cols_again" => df_filtered' = df_filtered]_vars

C8_Witness ==
    /\ call = "filter_cols"
    /\ Len(df_filtered.columns) < Len(df.columns)
    /\ Len(df.columns) = MaxCols

AllMissing(col) == \A i \in DOMAIN col.values : pd_isnull(col.values[i])

\* C9: for a frame with at least one row, a non-numeric column whose values
\* are all missing gets a missing marker as freq and the row count as missing,
\* and describe completes without failure.  Stated on the frames that have
\* both kinds of column and no empty column name, where nothing but the
\* all-missing column can make describe fail.
C9_AllMissingFreqIsMarker ==
    (/\ call = "descriptive_analysis"
     /\ df.index >= 1
     /\ BothGroupsPresent(df)
     /\ \A i \in DOMAIN df.columns : df.columns[i].name # <<>>
     /\ \E i \in DOMAIN df.columns :
            df.columns[i].dtype = "object" /\ AllMissing(df.columns[i])) =>
        /\ raised = "none"
        /\ \A i \in DOMAIN df.columns :
               (df.columns[i].dtype = "object" /\ AllMissing(df.columns[i])) =>
                   \E j \in DOMAIN combined_stats :
                       /\ combined_stats[j].column = df.columns[i].name
                       /\ combined_stats[j].stats["freq"] = NaN
                       /\ combined_stats[j].stats["missing"] = IntV(df.index)

\* C10: filter_cols handles degenerate inputs: no error for zero columns or
\* zero rows; with zero rows threshold_count is 0 and nothing is flagged for
\* missingness; when no column qualifies the report is an empty table with
\* the headers Column and Reason and the filtered frame equals the input.
C10_DegenerateInputs ==
    call = "filter_cols" =>
        /\ raised = "none"
        /\ df.index = 0 =>
               /\ threshold_count = 0
               /\ \A i \in DOMAIN report_df.rows :
                      report_df.rows[i].Reason \notin ExcessiveReasons
        /\ (\A i \in DOMAIN df.columns :
                /\ ~OverThreshold(df.columns[i])
                /\ df.columns[i].name \notin UnnamedNames) =>
               /\ report_df = [columns |-> <<"Column", "Reason">>, rows |-> <<>>]
               /\ df_filtered = df

C10_Witness ==
    /\ call = "filter_cols"
    /\ df.index = 0
    /\ Len(df.columns) >= 1
    /\ report_df.rows = <<>>

====
